---- MODULE Spec2Model ----
(***************************************************************************)
(* A model of the element schemas of spatialdata (_core/models.py): the    *)
(* attachment of coordinate-system transformations, and the parse and      *)
(* validate operations of the raster, shapes, points and table models.     *)
(*                                                                         *)
(* `data` is the object the caller hands to an operation (an array, a      *)
(* geometry table, an annotated table, a container ...).  Operations that  *)
(* work in place change it.  `call` records the last operation: its        *)
(* arguments, whether it raised, and the element it returned.              *)
(***************************************************************************)
EXTENDS Integers, Sequences, FiniteSets, TLC

VARIABLES data, call

vars == <<data, call>>

\* ---------------------------------------------------------------- bounds
\* The largest number of rows of a geometry table.
MaxGeoms == 2

\* ------------------------------------------------------- python values
None == [kind |-> "None"]
Dict(m) == [kind |-> "dict", val |-> m]
Str(s) == [kind |-> "str", val |-> s]
List(l) == [kind |-> "list", val |-> l]

IsNone(v) == v.kind = "None"

NoCall == [op |-> "none", ok |-> TRUE, result |-> [type |-> "none"], pts |-> <<>>]
NoElement == [type |-> "none"]

Range(s) == {s[i] : i \in DOMAIN s}

\* A dictionary is a function from its keys; these are `d[k] = v` and `del d[k]`.
SetItem(d, k, v) == [x \in DOMAIN d \cup {k} |-> IF x = k THEN v ELSE d[x]]
DelItem(d, k) == [x \in DOMAIN d \ {k} |-> d[x]]
EmptyDict == [x \in {} |-> None]

\* ------------------------------------------------- coordinate systems
DEFAULT_COORDINATE_SYSTEM == "global"
TRANSFORM_KEY == "transform"

Identity == "Identity"
Scale == "Scale"

\* The mappings from coordinate-system name to transformation that callers pass.
IdentityToGlobal == [cs \in {DEFAULT_COORDINATE_SYSTEM} |-> Identity]
ScaleToMySpace0 == [cs \in {"my_space0"} |-> Scale]
ScaleToGlobal == [cs \in {DEFAULT_COORDINATE_SYSTEM} |-> Scale]
TwoSpaces == [cs \in {DEFAULT_COORDINATE_SYSTEM, "my_space0"} |->
                 IF cs = DEFAULT_COORDINATE_SYSTEM THEN Identity ELSE Scale]
Mappings == {EmptyDict, IdentityToGlobal, ScaleToMySpace0, ScaleToGlobal, TwoSpaces}

\* What a caller may pass as `transformations`: nothing, a mapping, or a value that
\* is no mapping of coordinate systems to transformations at all.
NotAMapping == [kind |-> "other"]
TransformationsArgs == {None, NotAMapping} \cup {Dict(m) : m \in Mappings}

\* The attrs of an element as the caller may have left them.
ElementAttrs == {EmptyDict} \cup {SetItem(EmptyDict, TRANSFORM_KEY, m) : m \in Mappings}

\* core_utils._validate_mapping_to_coordinate_system_type: TRUE when it returns.
ValidateMappingType(transformations) == transformations.kind \in {"None", "dict"}

\* core_utils._get_transformations: the mapping kept in the element's attrs, or None.
GetTransformations(element) ==
    IF TRANSFORM_KEY \in DOMAIN element.attrs
    THEN Dict(element.attrs[TRANSFORM_KEY])
    ELSE None

\* core_utils._set_transformations: the element with the mapping stored in its attrs.
SetTransformations(element, m) ==
    [element EXCEPT !.attrs = SetItem(@, TRANSFORM_KEY, m)]

NonEmpty(t) == t.kind = "dict" /\ DOMAIN t.val # {}

\* Mutants of the choice _parse_transformations makes.
ParsedTransformations_argumentWins(transformations_in_element, transformations) ==
    IF NonEmpty(transformations) THEN [ok |-> TRUE, m |-> transformations.val]
    ELSE IF NonEmpty(transformations_in_element)
    THEN [ok |-> TRUE, m |-> transformations_in_element.val]
    ELSE [ok |-> TRUE, m |-> IdentityToGlobal]

ParsedTransformations_noDefault(transformations_in_element, transformations) ==
    IF NonEmpty(transformations_in_element) /\ NonEmpty(transformations)
    THEN [ok |-> FALSE, m |-> EmptyDict]
    ELSE IF NonEmpty(transformations_in_element)
    THEN [ok |-> TRUE, m |-> transformations_in_element.val]
    ELSE IF NonEmpty(transformations)
    THEN [ok |-> TRUE, m |-> transformations.val]
    ELSE [ok |-> TRUE, m |-> EmptyDict]

\* A mutant: an empty mapping counts as present.
ParsedTransformations_emptyIsPresent(transformations_in_element, transformations) ==
    IF NonEmpty(transformations_in_element) /\ NonEmpty(transformations)
    THEN [ok |-> FALSE, m |-> EmptyDict]
    ELSE IF transformations_in_element.kind = "dict"
    THEN [ok |-> TRUE, m |-> transformations_in_element.val]
    ELSE IF transformations.kind = "dict"
    THEN [ok |-> TRUE, m |-> transformations.val]
    ELSE [ok |-> TRUE, m |-> IdentityToGlobal]

\* A mutant: the argument is accepted when it is the mapping the element carries.
ParsedTransformations_sameMappingAccepted(transformations_in_element, transformations) ==
    IF NonEmpty(transformations_in_element) /\ NonEmpty(transformations)
    THEN IF transformations_in_element = transformations
         THEN [ok |-> TRUE, m |-> transformations.val]
         ELSE [ok |-> FALSE, m |-> EmptyDict]
    ELSE IF NonEmpty(transformations_in_element)
    THEN [ok |-> TRUE, m |-> transformations_in_element.val]
    ELSE IF NonEmpty(transformations)
    THEN [ok |-> TRUE, m |-> transformations.val]
    ELSE [ok |-> TRUE, m |-> IdentityToGlobal]

\* A mutant: an argument given together with the element's mapping extends it.
ParsedTransformations_merged(transformations_in_element, transformations) ==
    IF NonEmpty(transformations_in_element) /\ NonEmpty(transformations)
    THEN [ok |-> TRUE,
          m |-> [cs \in DOMAIN transformations_in_element.val \cup DOMAIN transformations.val |->
                    IF cs \in DOMAIN transformations_in_element.val
                    THEN transformations_in_element.val[cs]
                    ELSE transformations.val[cs]]]
    ELSE IF NonEmpty(transformations_in_element)
    THEN [ok |-> TRUE, m |-> transformations_in_element.val]
    ELSE IF NonEmpty(transformations)
    THEN [ok |-> TRUE, m |-> transformations.val]
    ELSE [ok |-> TRUE, m |-> IdentityToGlobal]

\* The if/elif chain of _parse_transformations: the mapping it resolves, or a raise.
ParsedTransformations(transformations_in_element, transformations) ==
    IF NonEmpty(transformations_in_element) /\ NonEmpty(transformations)
    THEN [ok |-> FALSE, m |-> EmptyDict]
    ELSE IF NonEmpty(transformations_in_element)
    THEN [ok |-> TRUE, m |-> transformations_in_element.val]
    ELSE IF NonEmpty(transformations)
    THEN [ok |-> TRUE, m |-> transformations.val]
    ELSE [ok |-> TRUE, m |-> IdentityToGlobal]

\* _parse_transformations(element, transformations).  `ok` is FALSE when it raises;
\* `element` is the element afterwards; `pt` records the call: what the element
\* carried when it was reached, the argument, and what the element carries after.
ParseTransformations(element, transformations) ==
    LET transformations_in_element == GetTransformations(element)
        parsed == ParsedTransformations(transformations_in_element, transformations)
        raised == ~ValidateMappingType(transformations) \/ ~parsed.ok
        after == IF raised THEN element ELSE SetTransformations(element, parsed.m)
    IN  [ok |-> ~raised,
         element |-> after,
         pt |-> [in_element |-> transformations_in_element,
                 transformations |-> transformations,
                 ok |-> ~raised,
                 after |-> GetTransformations(after)]]

\* ------------------------------------------------------------- shapes
GEOMETRY_KEY == "geometry"
RADIUS_KEY == "radius"

\* The geometry classes a row can hold; LineString stands for the unsupported ones.
GeometryClasses == {"Point", "Polygon", "MultiPolygon", "LineString"}

\* shapely's GeometryType: the name of a geometry-type code.
GeometryTypeName(geometry) ==
    CASE geometry = 0 -> "Point"
      [] geometry = 1 -> "LineString"
      [] geometry = 3 -> "Polygon"
      [] geometry = 6 -> "MultiPolygon"

GeometryArgs == {0, 1, 3, 6}

SeqsUpTo(S, n) == UNION {[1..k -> S] : k \in 0..n}

\* A GeoDataFrame: its columns, the rows of its geometry column (when it has one),
\* whether that column is a GeoSeries, and its attrs.
GeoDataFrame(columns, geometry, isGeoSeries, attrs) ==
    [type |-> "GeoDataFrame", columns |-> columns, geometry |-> geometry,
     isGeoSeries |-> isGeoSeries, attrs |-> attrs]

GeoDataFrames ==
    {GeoDataFrame(cols, g, gs, a) :
        cols \in SUBSET {GEOMETRY_KEY, RADIUS_KEY},
        g \in SeqsUpTo(GeometryClasses, MaxGeoms),
        gs \in BOOLEAN,
        a \in ElementAttrs}

\* ShapesModel.validate: TRUE when it returns, FALSE when it raises.
ShapesModel_validate(gdf) ==
    /\ GEOMETRY_KEY \in gdf.columns
    /\ gdf.isGeoSeries
    /\ Len(gdf.geometry) > 0
    /\ gdf.geometry[1] \in {"Polygon", "MultiPolygon", "Point"}
    /\ (gdf.geometry[1] = "Point" => RADIUS_KEY \in gdf.columns)
    /\ TRANSFORM_KEY \in DOMAIN gdf.attrs

Failed(d, pts) == [ok |-> FALSE, data |-> d, result |-> NoElement, pts |-> pts]

\* `geo_df[RADIUS_KEY] = radius`: raises unless the array has one value per row.
RadiusFits(geo_df, radius) == radius.kind = "array" /\ radius.len = Len(geo_df.geometry)

\* The tail the three entry points share: attach the transformations, validate.
ShapesAttachAndValidate(d, geo_df, transformations) ==
    LET p == ParseTransformations(geo_df, transformations)
    IN  IF ~p.ok THEN Failed(d, <<p.pt>>)
        ELSE IF ~ShapesModel_validate(p.element) THEN Failed(d, <<p.pt>>)
        ELSE [ok |-> TRUE, data |-> d, result |-> p.element, pts |-> <<p.pt>>]

\* A mutant of the entry point for a raw array: the radius is checked, not stored.
ShapesModel_parse_ndarray_radiusNotStored(d, geometry, radius, transformations) ==
    LET geo_df == GeoDataFrame({GEOMETRY_KEY},
                               [i \in 1..d.ngeoms |-> GeometryTypeName(geometry)],
                               TRUE, EmptyDict)
    IN  IF ~d.ragged_ok THEN Failed(d, <<>>)
        ELSE IF GeometryTypeName(geometry) = "Point"
        THEN IF IsNone(radius) THEN Failed(d, <<>>)
             ELSE IF ~RadiusFits(geo_df, radius) THEN Failed(d, <<>>)
             ELSE ShapesAttachAndValidate(d, geo_df, transformations)
        ELSE ShapesAttachAndValidate(d, geo_df, transformations)

\* ShapesModel.parse(np.ndarray, geometry, offsets, radius, transformations).
\* The array and offsets encode `ngeoms` geometries, or cannot be read as ragged.
ShapesModel_parse_ndarray(d, geometry, radius, transformations) ==
    LET geo_df == GeoDataFrame({GEOMETRY_KEY},
                               [i \in 1..d.ngeoms |-> GeometryTypeName(geometry)],
                               TRUE, EmptyDict)
        with_radius == [geo_df EXCEPT !.columns = @ \cup {RADIUS_KEY}]
    IN  IF ~d.ragged_ok THEN Failed(d, <<>>)
        ELSE IF GeometryTypeName(geometry) = "Point"
        THEN IF IsNone(radius) THEN Failed(d, <<>>)
             ELSE IF ~RadiusFits(geo_df, radius) THEN Failed(d, <<>>)
             ELSE ShapesAttachAndValidate(d, with_radius, transformations)
        ELSE ShapesAttachAndValidate(d, geo_df, transformations)

\* ShapesModel.parse(Path, radius, transformations).
ShapesModel_parse_path(d, radius, transformations) ==
    LET geo_df == GeoDataFrame({GEOMETRY_KEY}, d.geoms, TRUE, EmptyDict)
        with_radius == [geo_df EXCEPT !.columns = @ \cup {RADIUS_KEY}]
    IN  IF ~d.isCollection THEN Failed(d, <<>>)
        ELSE IF Len(geo_df.geometry) = 0 THEN Failed(d, <<>>)
        ELSE IF geo_df.geometry[1] = "Point"
        THEN IF IsNone(radius) THEN Failed(d, <<>>)
             ELSE IF ~RadiusFits(geo_df, radius) THEN Failed(d, <<>>)
             ELSE ShapesAttachAndValidate(d, with_radius, transformations)
        ELSE ShapesAttachAndValidate(d, geo_df, transformations)

\* ShapesModel.parse(GeoDataFrame, transformations): works on the table in place.
ShapesModel_parse_gdf(d, transformations) ==
    LET p == ParseTransformations(d, transformations)
    IN  IF GEOMETRY_KEY \notin d.columns THEN Failed(d, <<>>)
        ELSE IF Len(d.geometry) = 0 THEN Failed(d, <<>>)
        ELSE IF d.geometry[1] = "Point" /\ RADIUS_KEY \notin d.columns THEN Failed(d, <<>>)
        ELSE IF ~p.ok THEN Failed(p.element, <<p.pt>>)
        ELSE IF ~ShapesModel_validate(p.element) THEN Failed(p.element, <<p.pt>>)
        ELSE [ok |-> TRUE, data |-> p.element, result |-> p.element, pts |-> <<p.pt>>]

\* What callers hand to ShapesModel.parse.
RaggedArrays == [type : {"ragged ndarray"}, ngeoms : 0..MaxGeoms, ragged_ok : BOOLEAN]
GeoJsonPaths == [type : {"Path"}, isCollection : BOOLEAN,
                 geoms : SeqsUpTo(GeometryClasses, MaxGeoms)]
RadiusArgs == {None} \cup [kind : {"array"}, len : 0..MaxGeoms]

ShapesInputs == RaggedArrays \cup GeoJsonPaths \cup GeoDataFrames

ShapesParseArray ==
    /\ data.type = "ragged ndarray"
    /\ \E geometry \in GeometryArgs, radius \in RadiusArgs,
          transformations \in TransformationsArgs :
          LET r == ShapesModel_parse_ndarray(data, geometry, radius, transformations)
          IN  /\ data' = r.data
              /\ call' = [op |-> "ShapesModel.parse", entry |-> "ndarray",
                          before |-> data, geometry |-> geometry, radius |-> radius,
                          transformations |-> transformations,
                          ok |-> r.ok, result |-> r.result, pts |-> r.pts]

ShapesParsePath ==
    /\ data.type = "Path"
    /\ \E radius \in RadiusArgs, transformations \in TransformationsArgs :
          LET r == ShapesModel_parse_path(data, radius, transformations)
          IN  /\ data' = r.data
              /\ call' = [op |-> "ShapesModel.parse", entry |-> "Path",
                          before |-> data, radius |-> radius, transformations |-> transformations,
                          ok |-> r.ok, result |-> r.result, pts |-> r.pts]

ShapesParseGeoDataFrame ==
    /\ data.type = "GeoDataFrame"
    /\ \E transformations \in TransformationsArgs :
          LET r == ShapesModel_parse_gdf(data, transformations)
          IN  /\ data' = r.data
              /\ call' = [op |-> "ShapesModel.parse", entry |-> "GeoDataFrame",
                          before |-> data,
                          transformations |-> transformations,
                          ok |-> r.ok, result |-> r.result, pts |-> r.pts]

\* A direct call of _parse_transformations on an element the caller holds.
ParseTransformationsCall ==
    /\ data.type = "GeoDataFrame"
    /\ \E transformations \in TransformationsArgs :
          LET p == ParseTransformations(data, transformations)
          IN  /\ data' = p.element
              /\ call' = [op |-> "_parse_transformations", before |-> data,
                          transformations |-> transformations,
                          again |-> call.op = "_parse_transformations" /\ call.ok,
                          ok |-> p.ok, result |-> NoElement, pts |-> <<p.pt>>]

\* ------------------------------------------------------------- raster
C == "c"
Z == "z"
Y == "y"
X == "x"

\* Every axis label of the data model; an array has at most that many axes.
Axes == <<C, Z, Y, X>>

\* The largest extent of an array along one axis.
MaxExtent == 2

\* The most levels of a multiscale element handed to validate, and the most data
\* variables on one level.
MaxLevels == 2
MaxVariables == 2

RasterModels == {"Labels2DModel", "Labels3DModel", "Image2DModel", "Image3DModel"}

\* cls.dims.dims of the four raster models.
ClsDims(cls) ==
    CASE cls = "Labels2DModel" -> <<Y, X>>
      [] cls = "Labels3DModel" -> <<Z, Y, X>>
      [] cls = "Image2DModel" -> <<C, Y, X>>
      [] cls = "Image3DModel" -> <<C, Z, Y, X>>

SymmetricDifference(A, B) == (A \ B) \cup (B \ A)

\* s.index(e): the first place of e in s (e is in s).
Index(s, e) == CHOOSE i \in DOMAIN s : s[i] = e /\ \A j \in 1..(i - 1) : s[j] # e

IsInjective(s) == \A i, j \in DOMAIN s : s[i] = s[j] => i = j
IsPermutationOf(s, t) == Len(s) = Len(t) /\ Range(s) = Range(t) /\ IsInjective(s)

\* A mutant of transpose: the axes read as where each input axis goes.
TransposeShape_inverse(shape, axes) ==
    [i \in 1..Len(axes) |-> shape[CHOOSE j \in DOMAIN axes : axes[j] = i]]

\* array.transpose(*axes): axis i of the result is axis axes[i] of the array.
TransposeShape(shape, axes) == [i \in 1..Len(axes) |-> shape[axes[i]]]

\* transpose raises unless the axes are a permutation of the array's axes.
CanTranspose(shape, axes) ==
    /\ Len(axes) = Len(shape)
    /\ \A i \in DOMAIN axes : axes[i] \in DOMAIN shape
    /\ IsInjective(axes)

\* `_reindex` for an unlabelled array: lambda d: dims.index(d).
Reindex(dims, d) == Index(dims, d)

\* not set(dims).symmetric_difference(cls.dims.dims)
DimsMatch(dims, cls) == SymmetricDifference(Range(dims), Range(ClsDims(cls))) = {}

SpatialImage(dims, shape, attrs) ==
    [type |-> "SpatialImage", dims |-> dims, shape |-> shape,
     array_type |-> "DaskArray", attrs |-> attrs]

ScaleKeys == <<"scale0", "scale1", "scale2", "scale3">>

\* to_multiscale: the image and one more level per scale factor, the metadata reset.
ToMultiscale(image, scale_factors) ==
    [type |-> "MultiscaleSpatialImage",
     keys |-> [i \in 1..(Len(scale_factors) + 1) |-> ScaleKeys[i]],
     levels |-> [i \in 1..(Len(scale_factors) + 1) |->
                    [data_vars |-> <<[name |-> "image", dims |-> image.dims,
                                      array_type |-> image.array_type]>>]],
     dims |-> image.dims, shape |-> image.shape, attrs |-> EmptyDict]

\* The end of RasterSchema.parse, from to_spatial_image on: `array` is the array
\* in the model's order, `attrs` what to_spatial_image carried over from the input.
RasterAttach(d, shape, attrs, cls, transformations, scale_factors) ==
    LET image == SpatialImage(ClsDims(cls), shape, attrs)
        p == ParseTransformations(image, transformations)
        parsed_transform == GetTransformations(p.element)
        deleted == [p.element EXCEPT !.attrs = DelItem(@, TRANSFORM_KEY)]
        multiscale == ToMultiscale(deleted, scale_factors.val)
        q == ParseTransformations(multiscale, parsed_transform)
    IN  IF Len(shape) # Len(ClsDims(cls)) THEN Failed(d, <<>>)
        ELSE IF ~p.ok THEN Failed(d, <<p.pt>>)
        ELSE IF IsNone(scale_factors)
        THEN [ok |-> TRUE, data |-> d, result |-> p.element, pts |-> <<p.pt>>]
        ELSE IF ~q.ok THEN Failed(d, <<p.pt, q.pt>>)
        ELSE [ok |-> TRUE, data |-> d, result |-> q.element, pts |-> <<p.pt, q.pt>>]

\* RasterSchema.parse on a DataArray: `from_array` replaces a numpy backing in
\* place, the dims are those of the data unless given (and then must agree).
RasterParseLabelled(cls, d, dims, transformations, scale_factors, attrs_kept) ==
    LET d1 == [d EXCEPT !.array_type = "DaskArray"]
        resolved == IF IsNone(dims) THEN d1.dims ELSE dims.val
        transposed == IF resolved # ClsDims(cls)
                      THEN TransposeShape(d1.shape,
                               [i \in 1..Len(ClsDims(cls)) |-> Index(d1.dims, ClsDims(cls)[i])])
                      ELSE d1.shape
        attrs == IF attrs_kept THEN d1.attrs ELSE EmptyDict
    IN  IF ~IsNone(dims) /\ SymmetricDifference(Range(dims.val), Range(d1.dims)) # {}
        THEN Failed(d1, <<>>)
        ELSE IF ~DimsMatch(resolved, cls) THEN Failed(d1, <<>>)
        ELSE RasterAttach(d1, transposed, attrs, cls, transformations, scale_factors)

\* RasterSchema.parse on a numpy or dask array: the dims are the model's unless
\* given, and the array is transposed from the given order to the model's.
RasterParseUnlabelled(cls, d, dims, transformations, scale_factors) ==
    LET resolved == IF IsNone(dims) THEN ClsDims(cls) ELSE dims.val
        axes == [i \in 1..Len(ClsDims(cls)) |-> Reindex(resolved, ClsDims(cls)[i])]
    IN  IF ~DimsMatch(resolved, cls) THEN Failed(d, <<>>)
        ELSE IF resolved # ClsDims(cls)
        THEN IF ~CanTranspose(d.shape, axes) THEN Failed(d, <<>>)
             ELSE RasterAttach(d, TransposeShape(d.shape, axes), EmptyDict,
                               cls, transformations, scale_factors)
        ELSE RasterAttach(d, d.shape, EmptyDict, cls, transformations, scale_factors)

\* RasterSchema.parse(data, dims, transformations, scale_factors, **kwargs).
RasterSchema_parse(cls, d, dims, transformations, scale_factors, kwargs, attrs_kept) ==
    IF "name" \in kwargs THEN Failed(d, <<>>)
    ELSE IF d.type = "DataArray"
    THEN RasterParseLabelled(cls, d, dims, transformations, scale_factors, attrs_kept)
    ELSE IF d.type \in {"ndarray", "DaskArray"}
    THEN RasterParseUnlabelled(cls, d, dims, transformations, scale_factors)
    ELSE Failed(d, <<>>)

\* DataArraySchema.validate with the model's dims, array_type and attrs schemas.
RasterValidateSingle(cls, image) ==
    /\ image.dims = ClsDims(cls)
    /\ image.array_type = "DaskArray"
    /\ TRANSFORM_KEY \in DOMAIN image.attrs

\* {list(data[i].data_vars.keys())[0] for i in data.keys()}: the name of the first
\* data variable of every level (every level has one, or the indexing raises).
FirstNames(image) == {image.levels[i].data_vars[1].name : i \in DOMAIN image.levels}

\* data[d][name]: the data variable of that name on a level.
VariableNamed(level, name) ==
    level.data_vars[CHOOSE j \in DOMAIN level.data_vars : level.data_vars[j].name = name]

\* RasterSchema.validate on a multiscale element: the keys against scale0, scale1,
\* ..., the first data variable's name of each level, then each level's variable of
\* that name against the model's schema.  A level without a data variable, and a
\* tree without a level, end in an IndexError.
RasterValidateMultiscale(cls, image) ==
    /\ \A i \in DOMAIN image.keys : image.keys[i] = ScaleKeys[i]
    /\ \A i \in DOMAIN image.levels : Len(image.levels[i].data_vars) > 0
    /\ Cardinality(FirstNames(image)) = 1
    /\ LET name == CHOOSE n \in FirstNames(image) : TRUE
       IN  \A i \in DOMAIN image.levels :
               LET variable == VariableNamed(image.levels[i], name)
               IN  RasterValidateSingle(cls, [dims |-> variable.dims,
                                              array_type |-> variable.array_type,
                                              attrs |-> image.attrs])

\* RasterSchema.validate: a single-scale image against the model's schema, a
\* multiscale one by RasterValidateMultiscale, anything else is unsupported.
RasterSchema_validate(cls, image) ==
    IF image.type = "SpatialImage" THEN RasterValidateSingle(cls, image)
    ELSE IF image.type = "MultiscaleSpatialImage" THEN RasterValidateMultiscale(cls, image)
    ELSE FALSE

\* What callers hand to a raster parse.
Shapes == UNION {[1..n -> 1..MaxExtent] : n \in 2..Len(Axes)}
UnlabelledArrays == [type : {"ndarray", "DaskArray"}, shape : Shapes]

LabelledDims == {s \in UNION {[1..n -> Range(Axes)] : n \in 2..3} : IsInjective(s)}
                    \cup {<<C, Z, Y, X>>, <<Z, Y, X, C>>}
LabelledShape(dims) == [i \in 1..Len(dims) |-> IF i = 1 THEN MaxExtent ELSE 1]
RasterAttrs == {EmptyDict, SetItem(EmptyDict, TRANSFORM_KEY, ScaleToMySpace0),
                SetItem(EmptyDict, TRANSFORM_KEY, EmptyDict)}
LabelledArrays ==
    {[type |-> "DataArray", dims |-> s, shape |-> LabelledShape(s),
      array_type |-> t, attrs |-> a] :
        s \in LabelledDims, t \in {"ndarray", "DaskArray"}, a \in RasterAttrs}

RasterInputs == UnlabelledArrays \cup LabelledArrays \cup {[type |-> "list"]}

DimsUpTo(n) == {None} \cup {List(s) : s \in UNION {[1..k -> Range(Axes)] : k \in 1..n}}
ScaleFactorsArgs == {None, List(<<2>>), List(<<2, 4>>)}
RasterTransformationsArgs == {None, Dict(EmptyDict), Dict(ScaleToMySpace0)}

\* The calls tried: every `dims` with the other arguments left out, and every
\* combination of the other arguments with `dims` left out or the model's own.
RasterArgs(maxDims) ==
    [cls : RasterModels, dims : DimsUpTo(maxDims), transformations : {None},
     scale_factors : {None}, kwargs : {{}}, attrs_kept : {TRUE}]
    \cup
    UNION {[cls : {c}, dims : {None, List(ClsDims(c))},
            transformations : RasterTransformationsArgs,
            scale_factors : ScaleFactorsArgs,
            kwargs : {{}, {"name"}}, attrs_kept : BOOLEAN] : c \in RasterModels}

RasterParse ==
    /\ call = NoCall
    /\ data.type \in {"ndarray", "DaskArray", "DataArray", "list"}
    /\ \E a \in RasterArgs(IF data.type = "DataArray" THEN 3 ELSE Len(Axes)) :
          LET r == RasterSchema_parse(a.cls, data, a.dims, a.transformations,
                                      a.scale_factors, a.kwargs, a.attrs_kept)
          IN  /\ data' = r.data
              /\ call' = [op |-> "RasterSchema.parse", cls |-> a.cls, before |-> data,
                          dims |-> a.dims, transformations |-> a.transformations,
                          scale_factors |-> a.scale_factors, kwargs |-> a.kwargs,
                          ok |-> r.ok, result |-> r.result, pts |-> r.pts]

InitRaster == data \in RasterInputs /\ call = NoCall

NextRaster == RasterParse

SpecRaster == InitRaster /\ [][NextRaster]_vars

\* What callers hand to RasterSchema.validate: trees of up to MaxLevels levels under
\* any keys, each level with up to MaxVariables data variables of distinct names,
\* with the dims of a 2D labels or a 2D image model.
VariableNames == <<"image", "other", "extra">>
DataVariables ==
    [name : {VariableNames[i] : i \in 1..MaxVariables}, dims : {<<Y, X>>, <<C, Y, X>>},
     array_type : {"DaskArray"}]
Levels ==
    {[data_vars |-> v] :
        v \in {w \in SeqsUpTo(DataVariables, MaxVariables) :
                  \A i, j \in DOMAIN w : w[i].name = w[j].name => i = j}}
LevelKeys == {ScaleKeys[i] : i \in 1..MaxLevels}
MultiscaleSpatialImages ==
    UNION {{[type |-> "MultiscaleSpatialImage", keys |-> k, levels |-> l, attrs |-> a] :
               k \in [1..n -> LevelKeys], l \in [1..n -> Levels],
               a \in {EmptyDict, SetItem(EmptyDict, TRANSFORM_KEY, IdentityToGlobal)}} :
           n \in 0..MaxLevels}

RasterValidate ==
    /\ data.type = "MultiscaleSpatialImage"
    /\ \E cls \in {"Labels2DModel", "Image2DModel"} :
          /\ data' = data
          /\ call' = [op |-> "RasterSchema.validate", cls |-> cls,
                      ok |-> RasterSchema_validate(cls, data),
                      result |-> NoElement, pts |-> <<>>]

InitMultiscale == data \in MultiscaleSpatialImages /\ call = NoCall

NextMultiscale == RasterValidate

SpecMultiscale == InitMultiscale /\ [][NextMultiscale]_vars

\* ------------------------------------------------------------- points
ATTRS_KEY == "spatialdata_attrs"
FEATURE_KEY == "feature_key"
INSTANCE_KEY == "instance_key"

\* [X, Y, Z][:ndim]
PointsAxes(ndim) == SubSeq(<<X, Y, Z>>, 1, IF ndim < 3 THEN ndim ELSE 3)

\* A table of points: its columns, which of them are categorical, whether the axis
\* columns are float32, float64 or int64, and its attrs.
PointsTable(type, columns, categorical, numeric, attrs) ==
    [type |-> type, columns |-> columns, categorical |-> categorical,
     numeric |-> numeric, attrs |-> attrs]

\* PointsModel.validate: TRUE when it returns.  The metadata block is read only to
\* log advice, which needs the columns it names.
PointsModel_validate(table) ==
    /\ (table.columns \cap {X, Y, Z} # {} => table.numeric)
    /\ TRANSFORM_KEY \in DOMAIN table.attrs
    /\ (ATTRS_KEY \in DOMAIN table.attrs =>
          \A k \in {FEATURE_KEY, INSTANCE_KEY} :
              k \in DOMAIN table.attrs[ATTRS_KEY] =>
                  table.attrs[ATTRS_KEY][k] \in table.columns)

\* The keys _add_metadata_and_validate writes into the metadata block.
PointsMetadata(feature_key, instance_key) ==
    [k \in (IF IsNone(feature_key) THEN {} ELSE {FEATURE_KEY})
           \cup (IF IsNone(instance_key) THEN {} ELSE {INSTANCE_KEY}) |->
        IF k = FEATURE_KEY THEN feature_key.val ELSE instance_key.val]

\* PointsModel._add_metadata_and_validate(data, feature_key, instance_key, transformations).
AddMetadataAndValidate(d, table, feature_key, instance_key, transformations) ==
    LET with_block == IF IsNone(feature_key) /\ IsNone(instance_key) THEN table
                      ELSE [table EXCEPT !.attrs =
                               SetItem(@, ATTRS_KEY, PointsMetadata(feature_key, instance_key))]
        p == ParseTransformations(with_block, transformations)
    IN  IF ~IsNone(feature_key) /\ feature_key.val \notin table.columns THEN Failed(d, <<>>)
        ELSE IF ~IsNone(instance_key) /\ instance_key.val \notin table.columns
        THEN Failed(d, <<>>)
        ELSE IF ~p.ok THEN Failed(d, <<p.pt>>)
        ELSE IF ~PointsModel_validate(p.element) THEN Failed(d, <<p.pt>>)
        ELSE [ok |-> TRUE, data |-> d, result |-> p.element, pts |-> <<p.pt>>]

Given(key) == IF IsNone(key) THEN {} ELSE {key.val}

\* PointsModel.parse(np.ndarray, annotation, feature_key, instance_key, transformations).
PointsModel_parse_ndarray(d, annotation, feature_key, instance_key, transformations) ==
    LET axes == PointsAxes(d.shape[2])
        table == PointsTable("DaskDataFrame", Range(axes), {}, TRUE, EmptyDict)
        annotated ==
            [table EXCEPT
                !.columns = @ \cup Given(feature_key) \cup Given(instance_key)
                              \cup annotation.columns,
                !.categorical = Given(feature_key)
                    \cup (annotation.categorical \ Given(feature_key))]
    IN  IF d.type # "ndarray" THEN Failed(d, <<>>)
        ELSE IF Len(d.shape) # 2 THEN Failed(d, <<>>)
        ELSE IF d.shape[2] > 3 THEN Failed(d, <<>>)
        ELSE IF IsNone(annotation)
        THEN AddMetadataAndValidate(d, table, None, None, transformations)
        ELSE IF ~(Given(feature_key) \cup Given(instance_key) \subseteq annotation.columns)
        THEN Failed(d, <<>>)
        ELSE AddMetadataAndValidate(d, annotated, feature_key, instance_key,
                                    transformations)

\* PointsModel.parse(DataFrame, coordinates, feature_key, instance_key, transformations)
\* for an in-memory table and for a lazy one.  `attrs_kept` says whether projecting
\* a lazy table onto its coordinate columns carries its attrs over.
PointsModel_parse_table(d, coordinates, feature_key, instance_key, transformations, attrs_kept) ==
    LET axes == PointsAxes(Cardinality(DOMAIN coordinates))
        lazy == d.type = "DaskDataFrame"
        feature_copied == IF lazy THEN Given(feature_key) \ d.categorical
                          ELSE Given(feature_key)
        others == d.columns \ (Given(feature_key) \cup Given(instance_key)
                                 \cup Range(coordinates))
        columns == Range(axes) \cup feature_copied \cup Given(instance_key) \cup others
        table == PointsTable("DaskDataFrame", columns,
                             feature_copied \cup (d.categorical \cap (columns \ Range(axes))),
                             d.numeric,
                             IF lazy /\ attrs_kept THEN d.attrs ELSE EmptyDict)
    IN  IF ~(Range(axes) \subseteq DOMAIN coordinates) THEN Failed(d, <<>>)
        ELSE IF ~({coordinates[ax] : ax \in Range(axes)} \subseteq d.columns)
        THEN Failed(d, <<>>)
        ELSE IF ~(Given(feature_key) \cup Given(instance_key) \subseteq d.columns)
        THEN Failed(d, <<>>)
        ELSE AddMetadataAndValidate(d, table, feature_key, instance_key, transformations)

\* What callers hand to PointsModel.parse.
PointsColumns == {"x", "y", "genes", "instance_id"}
PointsTables ==
    {PointsTable(t, cols, cat, num, a) :
        t \in {"DataFrame", "DaskDataFrame"}, cols \in SUBSET PointsColumns,
        cat \in SUBSET {"genes"}, num \in BOOLEAN, a \in RasterAttrs}
AnnotationArgs ==
    {None} \cup [kind : {"DataFrame"}, columns : SUBSET {"genes", "instance_id", "cell"},
                 categorical : SUBSET {"genes"}]
KeyArgs(name) == {None, Str(name)}
CoordinatesArgs == {[ax \in {X, Y} |-> ax], [ax \in {X} |-> ax], [ax \in {Y} |-> ax]}

PointsInputs ==
    UnlabelledArrays \cup {t \in PointsTables : t.categorical \subseteq t.columns}

PointsParseArray ==
    /\ call = NoCall
    /\ data.type \in {"ndarray", "DaskArray"}
    /\ \E annotation \in {a \in AnnotationArgs :
                             IsNone(a) \/ a.categorical \subseteq a.columns},
          feature_key \in KeyArgs("genes"), instance_key \in KeyArgs("instance_id"),
          transformations \in RasterTransformationsArgs :
          LET r == PointsModel_parse_ndarray(data, annotation, feature_key,
                                             instance_key, transformations)
          IN  /\ data' = r.data
              /\ call' = [op |-> "PointsModel.parse", entry |-> "ndarray",
                          before |-> data, annotation |-> annotation,
                          feature_key |-> feature_key, instance_key |-> instance_key,
                          transformations |-> transformations,
                          ok |-> r.ok, result |-> r.result, pts |-> r.pts]

PointsParseTable ==
    /\ call = NoCall
    /\ data.type \in {"DataFrame", "DaskDataFrame"}
    /\ \E coordinates \in CoordinatesArgs,
          feature_key \in KeyArgs("genes"), instance_key \in KeyArgs("instance_id"),
          transformations \in RasterTransformationsArgs, attrs_kept \in BOOLEAN :
          LET r == PointsModel_parse_table(data, coordinates, feature_key,
                                           instance_key, transformations, attrs_kept)
          IN  /\ data' = r.data
              /\ call' = [op |-> "PointsModel.parse", entry |-> data.type,
                          before |-> data, coordinates |-> coordinates,
                          feature_key |-> feature_key, instance_key |-> instance_key,
                          transformations |-> transformations, attrs_kept |-> attrs_kept,
                          ok |-> r.ok, result |-> r.result, pts |-> r.pts]

InitPoints == data \in PointsInputs /\ call = NoCall

NextPoints == PointsParseArray \/ PointsParseTable

SpecPoints == InitPoints /\ [][NextPoints]_vars

InitShapes == data \in ShapesInputs /\ call = NoCall

NextShapes ==
    \/ ShapesParseArray
    \/ ShapesParsePath
    \/ ShapesParseGeoDataFrame
    \/ ParseTransformationsCall

SpecShapes == InitShapes /\ [][NextShapes]_vars

\* -------------------------------------------------------------- table
REGION_KEY == "region"
REGION_KEY_KEY == "region_key"
\* PointsModel.INSTANCE_KEY and TableModel.INSTANCE_KEY are the same string.

\* The largest number of observations (rows) of an annotated table.
MaxObs == 2

\* A value that is neither None, nor a string, nor a list.
Other == [kind |-> "other"]

\* The block {"region": .., "region_key": .., "instance_key": ..}.
Attr(region, region_key, instance_key) ==
    [k \in {REGION_KEY, REGION_KEY_KEY, INSTANCE_KEY} |->
        IF k = REGION_KEY THEN region
        ELSE IF k = REGION_KEY_KEY THEN region_key ELSE instance_key]

\* A mutant of n_args: only region is counted.
NArgs_regionOnly(region, region_key, instance_key) == IF IsNone(region) THEN 0 ELSE 1

\* sum([region is not None, region_key is not None, instance_key is not None])
NArgs(region, region_key, instance_key) ==
    (IF IsNone(region) THEN 0 ELSE 1) + (IF IsNone(region_key) THEN 0 ELSE 1)
        + (IF IsNone(instance_key) THEN 0 ELSE 1)

\* A mutant of the choice of the triple: the arguments, whatever the block holds.
ResolvedTriple_ignoresBlock(adata, region, region_key, instance_key) ==
    Attr(region, region_key, instance_key)

\* Lines 638-648 of TableModel.parse once they have not raised: the triple comes
\* from the block when no argument is given and the block exists.
ResolvedTriple(adata, region, region_key, instance_key) ==
    IF NArgs(region, region_key, instance_key) = 0 /\ ATTRS_KEY \in DOMAIN adata.uns
    THEN adata.uns[ATTRS_KEY]
    ELSE Attr(region, region_key, instance_key)

\* adata.obs[region_key].isin(region).all()
AllIn(column, region) == \A i \in DOMAIN column.values : column.values[i] \in Range(region)

\* TableModel.parse(adata, region, region_key, instance_key): works on adata in place.
TableModel_parse(adata, region, region_key, instance_key) ==
    LET n_args == NArgs(region, region_key, instance_key)
        has_block == ATTRS_KEY \in DOMAIN adata.uns
        attr == ResolvedTriple(adata, region, region_key, instance_key)
        key == attr[REGION_KEY_KEY].val
        converted == [adata EXCEPT !.obs[key].categorical = TRUE]
        written(a) == [a EXCEPT !.uns = SetItem(@, ATTRS_KEY, attr)]
        done(a) == [ok |-> TRUE, data |-> written(a), result |-> written(a), pts |-> <<>>]
    IN  IF n_args > 0 /\ has_block THEN Failed(adata, <<>>)
        ELSE IF DOMAIN attr # {REGION_KEY, REGION_KEY_KEY, INSTANCE_KEY}
        THEN Failed(adata, <<>>)
        ELSE IF attr[REGION_KEY].kind = "str"
        THEN IF ~IsNone(attr[REGION_KEY_KEY]) THEN Failed(adata, <<>>)
             ELSE IF IsNone(attr[INSTANCE_KEY]) THEN Failed(adata, <<>>)
             ELSE done(adata)
        ELSE IF attr[REGION_KEY].kind = "list"
        THEN IF IsNone(attr[REGION_KEY_KEY]) THEN Failed(adata, <<>>)
             ELSE IF key \notin DOMAIN adata.obs THEN Failed(adata, <<>>)
             ELSE IF ~AllIn(adata.obs[key], attr[REGION_KEY].val) THEN Failed(adata, <<>>)
             ELSE IF IsNone(attr[INSTANCE_KEY]) THEN Failed(converted, <<>>)
             ELSE done(converted)
        ELSE IF ~IsNone(attr[REGION_KEY]) THEN Failed(adata, <<>>)
        ELSE done(adata)

\* The table's block, once TableModel.parse or a caller has written it.
Block(adata) == adata.uns[ATTRS_KEY]

\* TableModel.validate: TRUE when it returns.
TableModel_validate(adata) ==
    ATTRS_KEY \in DOMAIN adata.uns =>
        LET attr == adata.uns[ATTRS_KEY]
        IN  /\ REGION_KEY \in DOMAIN attr
            /\ (attr[REGION_KEY].kind = "list" =>
                  /\ REGION_KEY_KEY \in DOMAIN attr
                  /\ INSTANCE_KEY \in DOMAIN attr)
            /\ (attr[REGION_KEY].kind = "str" =>
                  /\ REGION_KEY_KEY \in DOMAIN attr
                  /\ IsNone(attr[REGION_KEY_KEY])
                  /\ INSTANCE_KEY \in DOMAIN attr)

\* The tables callers build: observations with or without a column of region names,
\* categorical or not, and with or without a block, whose keys and values are free.
Regions == {"sample1", "sample2"}
ObsColumn == "annotated_region"
RegionArgs == {None, Str("sample1"), List(<<>>), List(<<"sample1">>),
               List(<<"sample1", "sample2">>), Other}
RegionKeyArgs == {None, Str(ObsColumn), Str("annotated_shapes")}
InstanceKeyArgs == {None, Str("instance_id")}

ObsFrames ==
    {EmptyDict} \cup
    {[c \in {ObsColumn} |-> [values |-> v, categorical |-> cat]] :
        v \in SeqsUpTo(Regions, MaxObs), cat \in BOOLEAN}

Blocks ==
    UNION {{[k \in K |-> IF k = REGION_KEY THEN r
                         ELSE IF k = REGION_KEY_KEY THEN rk ELSE ik] :
               r \in RegionArgs \ {List(<<>>)},
               rk \in RegionKeyArgs \ {Str("annotated_shapes")},
               ik \in InstanceKeyArgs} :
           K \in SUBSET {REGION_KEY, REGION_KEY_KEY, INSTANCE_KEY}}

AnnDatas ==
    {[type |-> "AnnData", obs |-> o, uns |-> u] :
        o \in ObsFrames,
        u \in {EmptyDict} \cup {SetItem(EmptyDict, ATTRS_KEY, b) : b \in Blocks}}

\* The call before this one was a TableModel.parse with arguments that returned.
ParsedWithArguments ==
    /\ call.op = "TableModel.parse"
    /\ call.ok
    /\ NArgs(call.region, call.region_key, call.instance_key) > 0

TableParse ==
    /\ data.type = "AnnData"
    /\ \E region \in RegionArgs, region_key \in RegionKeyArgs,
          instance_key \in InstanceKeyArgs :
          LET r == TableModel_parse(data, region, region_key, instance_key)
          IN  /\ data' = r.data
              /\ call' = [op |-> "TableModel.parse", region |-> region,
                          region_key |-> region_key, instance_key |-> instance_key,
                          had_block |-> ATTRS_KEY \in DOMAIN data.uns,
                          follows_parse |-> ParsedWithArguments,
                          ok |-> r.ok, result |-> NoElement, pts |-> <<>>]

TableValidate ==
    /\ data.type = "AnnData"
    /\ data' = data
    /\ call' = [op |-> "TableModel.validate", ok |-> TableModel_validate(data),
                result |-> NoElement, pts |-> <<>>]

InitTable == data \in AnnDatas /\ call = NoCall

NextTable == TableParse \/ TableValidate

SpecTable == InitTable /\ [][NextTable]_vars

\* ---------------------------------------------------------- container
\* The kinds of non-table element a SpatialData object holds, one collection each.
ElementTypes == <<"images", "labels", "points", "shapes">>

\* The largest number of rows of the table a SpatialData object holds.
MaxRows == 2

\* f"{element_type}/{element_name}" for the elements of the fixtures.
ElementPath(element_type, element_name) ==
    CASE element_type = "images" /\ element_name = "image2d" -> "images/image2d"
      [] element_type = "shapes" /\ element_name = "circles" -> "shapes/circles"
      [] element_type = "shapes" /\ element_name = "poly" -> "shapes/poly"

\* A collection maps element names to element objects; an object is known by its
\* identity, and `objects` is the memory that holds what each identity carries.
Collection(names, ids, present) ==
    [n \in {x \in names : ids[x] \in present} |-> ids[n]]

SpatialData(images, labels, points, shapes, table) ==
    [type |-> "SpatialData", images |-> images, labels |-> labels,
     points |-> points, shapes |-> shapes, table |-> table]

\* SpatialData._gen_elements: the (element_type, element_name) pairs of a container.
GenElements(sdata) ==
    UNION {{<<t, n>> : n \in DOMAIN sdata[t]} : t \in Range(ElementTypes)}

\* The coordinate systems an element object is mapped to.
MappedTo(element) ==
    LET t == GetTransformations(element)
    IN  IF IsNone(t) THEN {} ELSE DOMAIN t.val

\* SpatialData.coordinate_systems: every name some element is mapped to.
CoordinateSystems(sdata, objects) ==
    UNION {MappedTo(objects[sdata[e[1]][e[2]]]) : e \in GenElements(sdata)}

\* set_transformation(element, transformation, to_coordinate_system): the element's
\* mapping gains (or replaces) the entry of that coordinate system.
SetTransformation(element, transformation, to_coordinate_system) ==
    SetTransformations(element,
        SetItem(GetTransformations(element).val, to_coordinate_system, transformation))

\* The names a caller asks for: one name or a list of names.
Names(coordinate_system) ==
    IF coordinate_system.kind = "str" THEN {coordinate_system.val}
    ELSE Range(coordinate_system.val)

\* A mutant of the choice of elements: mapped to all the requested names.
FilterElements_allNames(sdata, objects, names, element_type) ==
    [n \in {x \in DOMAIN sdata[element_type] :
               names \subseteq MappedTo(objects[sdata[element_type][x]])} |->
        sdata[element_type][n]]

\* The elements of one kind that filter_by_coordinate_system keeps: those mapped to
\* at least one of the requested names, the same objects under the same names.
FilterElements(sdata, objects, names, element_type) ==
    [n \in {x \in DOMAIN sdata[element_type] :
               MappedTo(objects[sdata[element_type][x]]) \cap names # {}} |->
        sdata[element_type][n]]

INSTANCE_KEY_COLUMN == "instance_id"
REGION_KEY_COLUMN == "annotated_shapes"

\* The rows of a table, one record of column values per observation.
NObs(adata) == Len(adata.obs[INSTANCE_KEY_COLUMN].values)
Rows(adata) ==
    [i \in 1..NObs(adata) |-> [c \in DOMAIN adata.obs |-> adata.obs[c].values[i]]]

\* table[mask]: the table of the rows given, columns and metadata as they were.
WithRows(adata, rows) ==
    [adata EXCEPT !.obs = [c \in DOMAIN adata.obs |->
        [adata.obs[c] EXCEPT !.values = [i \in 1..Len(rows) |-> rows[i][c]]]]]

\* The regions a row belongs to: its region_key value under a list of regions, the
\* region itself under a single name, none without region annotation.
RegionMembership(adata, row) ==
    LET attr == adata.uns[ATTRS_KEY]
    IN  IF attr[REGION_KEY].kind = "list" THEN {row[attr[REGION_KEY_KEY].val]}
        ELSE IF attr[REGION_KEY].kind = "str" THEN {attr[REGION_KEY].val}
        ELSE {}

\* A mutant of the table's filter: the table is carried through.
FilterTable_carriedThrough(table, paths) == table

\* The table filtered to the rows whose region membership meets the given paths.
FilterTable(table, paths) ==
    IF table.type = "none" THEN table
    ELSE LET Kept(row) == RegionMembership(table, row) \cap paths # {}
         IN  WithRows(table, SelectSeq(Rows(table), Kept))

\* SpatialData.filter_by_coordinate_system(coordinate_system, filter_table).
FilterByCoordinateSystem(sdata, objects, coordinate_system, filter_table) ==
    LET names == Names(coordinate_system)
        kept(t) == FilterElements(sdata, objects, names, t)
        paths == UNION {{ElementPath(t, n) : n \in DOMAIN kept(t)} :
                           t \in Range(ElementTypes)}
    IN  SpatialData(kept("images"), kept("labels"), kept("points"), kept("shapes"),
                    IF filter_table THEN FilterTable(sdata.table, paths)
                    ELSE sdata.table)

\* The containers of the fixtures: any of an image and two shapes, each parsed with
\* the default mapping or with one to "my_space0", and no table, a table annotating
\* one region, or a table annotating the two shapes row by row.
ElementObjects == {1, 2, 3}
ImageIds == [n \in {"image2d"} |-> 1]
ShapeIds == [n \in {"circles", "poly"} |-> IF n = "circles" THEN 2 ELSE 3]
ShapePaths == {ElementPath("shapes", n) : n \in DOMAIN ShapeIds}

InstanceColumn(n) == [values |-> [i \in 1..n |-> i], categorical |-> FALSE]

SingleRegionTables ==
    {TableModel_parse([type |-> "AnnData", uns |-> EmptyDict,
                       obs |-> [c \in {INSTANCE_KEY_COLUMN} |-> InstanceColumn(n)]],
                      Str("sample1"), None, Str(INSTANCE_KEY_COLUMN)).data :
        n \in 0..MaxRows}

RegionListTables ==
    {TableModel_parse([type |-> "AnnData", uns |-> EmptyDict,
                       obs |-> [c \in {INSTANCE_KEY_COLUMN, REGION_KEY_COLUMN} |->
                                  IF c = INSTANCE_KEY_COLUMN THEN InstanceColumn(Len(v))
                                  ELSE [values |-> v, categorical |-> FALSE]]],
                      List(<<"shapes/circles", "shapes/poly">>),
                      Str(REGION_KEY_COLUMN), Str(INSTANCE_KEY_COLUMN)).data :
        v \in SeqsUpTo(ShapePaths, MaxRows)}

ContainerTables == {NoElement} \cup SingleRegionTables \cup RegionListTables

SpatialDatas ==
    {[type |-> "SpatialData",
      sdata |-> SpatialData(Collection(DOMAIN ImageIds, ImageIds, DOMAIN m), EmptyDict,
                            EmptyDict, Collection(DOMAIN ShapeIds, ShapeIds, DOMAIN m),
                            table),
      objects |-> [id \in DOMAIN m |->
                     [attrs |-> SetItem(EmptyDict, TRANSFORM_KEY, m[id])]]] :
        m \in UNION {[P -> {IdentityToGlobal, ScaleToMySpace0}] :
                        P \in SUBSET ElementObjects},
        table \in ContainerTables}

CoordinateSystemArgs ==
    {Str(DEFAULT_COORDINATE_SYSTEM), Str("my_space0"), Str("my_space1"),
     Str("my_space2"), List(<<"my_space0", "my_space1", "my_space2">>)}
SetTransformationArgs == {<<Scale, "my_space0">>, <<Identity, "my_space1">>}

SetTransformationCall ==
    /\ data.type = "SpatialData"
    /\ \E id \in DOMAIN data.objects, a \in SetTransformationArgs :
          data' = [data EXCEPT !.objects[id] = SetTransformation(@, a[1], a[2])]
    /\ call' = [op |-> "set_transformation", ok |-> TRUE, result |-> NoElement,
                pts |-> <<>>]

FilterByCoordinateSystemCall ==
    /\ data.type = "SpatialData"
    /\ \E coordinate_system \in CoordinateSystemArgs, filter_table \in BOOLEAN :
          call' = [op |-> "filter_by_coordinate_system",
                   coordinate_system |-> coordinate_system,
                   filter_table |-> filter_table, ok |-> TRUE,
                   result |-> FilterByCoordinateSystem(data.sdata, data.objects,
                                  coordinate_system, filter_table),
                   pts |-> <<>>]
    /\ data' = data

InitContainer == data \in SpatialDatas /\ call = NoCall

NextContainer == SetTransformationCall \/ FilterByCoordinateSystemCall

SpecContainer == InitContainer /\ [][NextContainer]_vars

\* ------------------------------------------------- table concatenation
\* The largest number of tables handed to _concatenate_tables at once.
MaxTables == 3

\* An operation that raised: the kind of error, and no result.
Raised(error) == [ok |-> FALSE, error |-> error, result |-> NoElement]
Returned(value) == [ok |-> TRUE, error |-> "", result |-> value]

\* The names tried, in order, for the region_key column of a merged table.
MergedRegionKeys ==
    <<"annotated_element_merged", "annotated_element_merged_1",
      "annotated_element_merged_2", "annotated_element_merged_3">>

\* The first of these names that is a column of none of the tables.
FreshRegionKey(tables) ==
    LET free(i) == \A k \in DOMAIN tables : MergedRegionKeys[i] \notin DOMAIN tables[k].obs
    IN  MergedRegionKeys[CHOOSE i \in DOMAIN MergedRegionKeys :
                            free(i) /\ \A j \in 1..(i - 1) : ~free(j)]

\* The order in which region names sort.
SortedRegions == <<"shapes/circles", "shapes/poly">>
Sorted(regions) == LET In(r) == r \in regions IN SelectSeq(SortedRegions, In)

\* The regions a table annotates: its single name, or the names of its list.
RegionsOf(table) ==
    LET region == Block(table)[REGION_KEY]
    IN  IF region.kind = "str" THEN {region.val} ELSE Range(region.val)

\* The column under which a table's rows name their region once tables are merged:
\* its region_key under a list of regions, the fresh name under a single name.
RegionKeyOf(table, fresh) ==
    IF Block(table)[REGION_KEY].kind = "list" THEN Block(table)[REGION_KEY_KEY].val
    ELSE fresh

\* A value missing from a column after a row-wise concatenation.
NaN == "nan"

\* The values one table contributes to a column of the merged table.
ColumnOf(table, column, fresh) ==
    IF column = fresh /\ Block(table)[REGION_KEY].kind = "str"
    THEN [i \in 1..NObs(table) |-> Block(table)[REGION_KEY].val]
    ELSE IF column \in DOMAIN table.obs THEN table.obs[column].values
    ELSE [i \in 1..NObs(table) |-> NaN]

RECURSIVE ConcatColumn(_, _, _)
ConcatColumn(tables, column, fresh) ==
    IF tables = <<>> THEN <<>>
    ELSE ColumnOf(Head(tables), column, fresh) \o ConcatColumn(Tail(tables), column, fresh)

\* The region linkage of one input is of one of the two shapes.
LinkageShaped(table) ==
    LET attr == Block(table)
    IN  \/ attr[REGION_KEY].kind = "str" /\ IsNone(attr[REGION_KEY_KEY])
        \/ attr[REGION_KEY].kind = "list" /\ attr[REGION_KEY_KEY].kind = "str"

\* A mutant of the check of instance keys: the first table's key is taken.
InstanceKeysAgree_firstWins(tables) == TRUE

\* Every input records the same instance_key.
InstanceKeysAgree(tables) ==
    \A k \in DOMAIN tables : Block(tables[k])[INSTANCE_KEY] = Block(tables[1])[INSTANCE_KEY]

\* A mutant of the merged table: the rows of the last table only.
MergedObs_lastOnly(tables, fresh) ==
    [c \in DOMAIN tables[Len(tables)].obs \cup {RegionKeyOf(tables[1], fresh)} |->
        [values |-> ColumnOf(tables[Len(tables)], c, fresh),
         categorical |-> c = RegionKeyOf(tables[1], fresh)]]

\* The observations of the merged table: the rows of the inputs in order, under the
\* columns of any of them and the merged region_key column, which is categorical.
MergedObs(tables, fresh) ==
    [c \in UNION {DOMAIN tables[k].obs : k \in DOMAIN tables}
              \cup {RegionKeyOf(tables[1], fresh)} |->
        [values |-> ConcatColumn(tables, c, fresh),
         categorical |-> c = RegionKeyOf(tables[1], fresh)]]

\* _concatenate_tables(tables).
ConcatenateTables(tables) ==
    IF Len(tables) = 0 THEN Returned(NoElement)
    ELSE IF Len(tables) = 1
    THEN IF TableModel_validate(tables[1]) THEN Returned(tables[1])
         ELSE Raised("AssertionError")
    ELSE LET fresh == FreshRegionKey(tables)
             keys == {RegionKeyOf(tables[k], fresh) : k \in DOMAIN tables}
             attr == Attr(List(Sorted(UNION {RegionsOf(tables[k]) : k \in DOMAIN tables})),
                          Str(RegionKeyOf(tables[1], fresh)),
                          Block(tables[1])[INSTANCE_KEY])
         IN  IF ~InstanceKeysAgree(tables) THEN Raised("AssertionError")
             ELSE IF \E k \in DOMAIN tables : ~LinkageShaped(tables[k])
             THEN Raised("AssertionError")
             ELSE IF Cardinality(keys) # 1 THEN Raised("RuntimeError")
             ELSE Returned([type |-> "AnnData", obs |-> MergedObs(tables, fresh),
                            uns |-> SetItem(EmptyDict, ATTRS_KEY, attr)])

\* The tables of the tests: a single region with or without a column that already
\* has the merged name, the same with a region_key or a list of instance keys written
\* into the block afterwards, and a list of regions under one of two region keys.
RegionKeyColumns == {"annotated_shape0", "annotated_shape1"}

Annotating(region, region_key, instance_key, n, columns) ==
    [type |-> "AnnData",
     obs |-> [c \in {INSTANCE_KEY_COLUMN} \cup columns |->
                IF c = INSTANCE_KEY_COLUMN THEN InstanceColumn(n)
                ELSE [values |-> [i \in 1..n |-> "0"], categorical |-> FALSE]],
     uns |-> SetItem(EmptyDict, ATTRS_KEY, Attr(region, region_key, instance_key))]

SingleRegionInputs ==
    {TableModel_parse([Annotating(None, None, None, n, columns) EXCEPT !.uns = EmptyDict],
                      Str(r), None, Str(INSTANCE_KEY_COLUMN)).data :
        r \in ShapePaths, n \in {1, 2},
        columns \in {{}, {MergedRegionKeys[1]}}}

RewrittenInputs ==
    {Annotating(Str("shapes/circles"), Str("annotated_shapes_other"),
                Str(INSTANCE_KEY_COLUMN), n, {}) : n \in {1}}
    \cup {Annotating(Str("shapes/circles"), None,
                     List(<<"shapes/circles", "shapes/poly">>), n, {}) : n \in {1}}

RegionListInputs ==
    {TableModel_parse([type |-> "AnnData", uns |-> EmptyDict,
                       obs |-> [c \in {INSTANCE_KEY_COLUMN, key} |->
                                  IF c = INSTANCE_KEY_COLUMN THEN InstanceColumn(Len(v))
                                  ELSE [values |-> v, categorical |-> FALSE]]],
                      List(<<"shapes/circles", "shapes/poly">>),
                      Str(key), Str(INSTANCE_KEY_COLUMN)).data :
        key \in RegionKeyColumns,
        v \in {<<"shapes/circles">>, <<"shapes/poly", "shapes/poly">>,
               <<"shapes/circles", "shapes/poly">>}}

ConcatenateInputs == SingleRegionInputs \cup RewrittenInputs \cup RegionListInputs

ConcatenateTablesCall ==
    /\ data.type = "tables"
    /\ call = NoCall
    /\ LET r == ConcatenateTables(data.tables)
       IN  call' = [op |-> "_concatenate_tables", ok |-> r.ok, error |-> r.error,
                    result |-> r.result, pts |-> <<>>]
    /\ data' = data

InitTables ==
    /\ data \in {[type |-> "tables", tables |-> ts] :
                    ts \in SeqsUpTo(ConcatenateInputs, MaxTables)}
    /\ call = NoCall

NextTables == ConcatenateTablesCall

SpecTables == InitTables /\ [][NextTables]_vars

\* ------------------------------------------------------- concatenation
\* The largest number of containers handed to concatenate at once.
MaxContainers == 2

\* A mutant of the check of names: only the images are looked at.
Colliding_imagesOnly(sdatas, element_type) ==
    /\ element_type = "images"
    /\ \E j, k \in DOMAIN sdatas :
          j < k /\ DOMAIN sdatas[j][element_type] \cap DOMAIN sdatas[k][element_type] # {}

\* Two of the containers hold an element of the same name in this collection.
Colliding(sdatas, element_type) ==
    \E j, k \in DOMAIN sdatas :
        j < k /\ DOMAIN sdatas[j][element_type] \cap DOMAIN sdatas[k][element_type] # {}

\* The union of the containers' collections of one kind.
MergedCollection(sdatas, element_type) ==
    [n \in UNION {DOMAIN sdatas[k][element_type] : k \in DOMAIN sdatas} |->
        sdatas[CHOOSE k \in DOMAIN sdatas : n \in DOMAIN sdatas[k][element_type]]
              [element_type][n]]

\* The tables of the containers that have one, in the order of the containers.
RECURSIVE TablesOf(_)
TablesOf(sdatas) ==
    IF sdatas = <<>> THEN <<>>
    ELSE (IF Head(sdatas).table = NoElement THEN <<>> ELSE <<Head(sdatas).table>>)
             \o TablesOf(Tail(sdatas))

\* concatenate(sdatas, omit_table).
Concatenate(sdatas, omit_table) ==
    LET merged_table == IF omit_table THEN Returned(NoElement)
                        ELSE ConcatenateTables(TablesOf(sdatas))
    IN  IF \E t \in Range(ElementTypes) : Colliding(sdatas, t)
        THEN Raised("RuntimeError")
        ELSE IF ~merged_table.ok THEN merged_table
        ELSE Returned(SpatialData(MergedCollection(sdatas, "images"),
                                  MergedCollection(sdatas, "labels"),
                                  MergedCollection(sdatas, "points"),
                                  MergedCollection(sdatas, "shapes"),
                                  merged_table.result))

\* The containers of the tests: any of the image and the two shapes, with no table,
\* a table of one region, or a table of a list of regions.
ConcatenatedContainerTables ==
    {NoElement}
    \cup {t \in SingleRegionInputs : DOMAIN t.obs = {INSTANCE_KEY_COLUMN} /\ NObs(t) = 1}
    \cup {t \in RegionListInputs : NObs(t) = 1}

ConcatenateContainers ==
    {SpatialData(Collection(DOMAIN ImageIds, ImageIds, P), EmptyDict, EmptyDict,
                 Collection(DOMAIN ShapeIds, ShapeIds, P), table) :
        P \in SUBSET ElementObjects, table \in ConcatenatedContainerTables}

ConcatenateCall ==
    /\ data.type = "SpatialDatas"
    /\ call = NoCall
    /\ \E omit_table \in BOOLEAN :
          LET r == Concatenate(data.sdatas, omit_table)
          IN  call' = [op |-> "concatenate", omit_table |-> omit_table, ok |-> r.ok,
                       error |-> r.error, result |-> r.result, pts |-> <<>>]
    /\ data' = data

InitConcatenate ==
    /\ data \in {[type |-> "SpatialDatas", sdatas |-> sdatas] :
                    sdatas \in SeqsUpTo(ConcatenateContainers, MaxContainers)}
    /\ call = NoCall

NextConcatenate == ConcatenateCall

SpecConcatenate == InitConcatenate /\ [][NextConcatenate]_vars

\* ------------------------------------------------------------- lookup
\* The names under which the tests bind elements, and the objects of each kind.
BindingNames ==
    [t \in Range(ElementTypes) |->
        IF t = "images" THEN {"image2d", "image2d_again"}
        ELSE IF t = "shapes" THEN {"circles", "poly"} ELSE {}]
ObjectsOfType ==
    [t \in Range(ElementTypes) |->
        IF t = "images" THEN Range(ImageIds)
        ELSE IF t = "shapes" THEN Range(ShapeIds) ELSE {}]

\* The (element_type, element_name) pairs under which a container holds an object.
BindingsOf(sdata, element) ==
    {e \in GenElements(sdata) : sdata[e[1]][e[2]] = element}

\* A mutant of the lookup: the first binding found is returned.
LocateSpatialElement_firstFound(sdata, element) ==
    LET found == BindingsOf(sdata, element)
    IN  IF found = {} THEN Raised("ValueError")
        ELSE LET e == CHOOSE x \in found : TRUE IN Returned(<<e[2], e[1]>>)

\* SpatialData._locate_spatial_element(element): (name, kind) of the one binding of
\* the object, found by identity.
LocateSpatialElement(sdata, element) ==
    LET found == BindingsOf(sdata, element)
    IN  IF found = {} THEN Raised("ValueError")
        ELSE IF Cardinality(found) > 1 THEN Raised("ValueError")
        ELSE LET e == CHOOSE x \in found : TRUE IN Returned(<<e[2], e[1]>>)

\* sdata.<kind>[name] = element, with an element object the caller holds.
SetElementCall ==
    /\ data.type = "SpatialData"
    /\ \E t \in Range(ElementTypes) :
          \E n \in BindingNames[t], element \in ObjectsOfType[t] :
             data' = [data EXCEPT !.sdata[t] = SetItem(@, n, element)]
    /\ call' = [op |-> "__setitem__", ok |-> TRUE, result |-> NoElement, pts |-> <<>>]

\* del sdata.<kind>[name]
DelElementCall ==
    /\ data.type = "SpatialData"
    /\ \E e \in GenElements(data.sdata) :
          data' = [data EXCEPT !.sdata[e[1]] = DelItem(@, e[2])]
    /\ call' = [op |-> "__delitem__", ok |-> TRUE, result |-> NoElement, pts |-> <<>>]

LocateSpatialElementCall ==
    /\ data.type = "SpatialData"
    /\ \E element \in DOMAIN data.objects :
          LET r == LocateSpatialElement(data.sdata, element)
          IN  call' = [op |-> "_locate_spatial_element", element |-> element,
                       ok |-> r.ok, error |-> r.error, result |-> r.result,
                       pts |-> <<>>]
    /\ data' = data

\* The container of the fixture: the image and the two shapes, no table.
InitLocate ==
    /\ data \in {sd \in SpatialDatas :
                    /\ DOMAIN sd.objects = ElementObjects
                    /\ sd.sdata.table = NoElement
                    /\ \A id \in ElementObjects :
                          sd.objects[id].attrs[TRANSFORM_KEY] = IdentityToGlobal}
    /\ call = NoCall

NextLocate == SetElementCall \/ DelElementCall \/ LocateSpatialElementCall

SpecLocate == InitLocate /\ [][NextLocate]_vars

\* ------------------------------------------------- the element parsers
InitElements == InitShapes \/ InitRaster \/ InitPoints

NextElements == NextShapes \/ NextRaster \/ NextPoints

\* Every parse entry point of a non-table element, and _parse_transformations.
SpecElements == InitElements /\ [][NextElements]_vars

ElementParsers == {"ShapesModel.parse", "RasterSchema.parse", "PointsModel.parse"}

\* The operations that work on the caller's element in place.
InPlace ==
    \/ call.op = "_parse_transformations"
    \/ call.op = "ShapesModel.parse" /\ call.entry = "GeoDataFrame"

\* A call of _parse_transformations that found transformations on both sides.
DoublySpecified(pt) == NonEmpty(pt.in_element) /\ NonEmpty(pt.transformations)

\* C1: whenever _parse_transformations is reached, directly or through a parse entry
\* point, with an element that carries a non-empty mapping and with a non-empty
\* mapping as argument, the call fails, and the mapping on the element afterwards is
\* the one it carried before (for an operation in place: the one on the caller's
\* element before the call).
C1_DoubleSpecificationFails ==
    \A i \in DOMAIN call.pts :
        DoublySpecified(call.pts[i]) =>
            /\ ~call.pts[i].ok
            /\ ~call.ok
            /\ call.result = NoElement
            /\ call.pts[i].after = call.pts[i].in_element
            /\ (InPlace => /\ GetTransformations(data) = call.pts[i].in_element
                           /\ GetTransformations(call.before) = call.pts[i].in_element)

C1_Witness ==
    /\ call.op = "ShapesModel.parse"
    /\ call.entry = "GeoDataFrame"
    /\ Len(call.pts) = 1
    /\ DoublySpecified(call.pts[1])
    /\ call.pts[1].in_element = Dict(ScaleToMySpace0)
    /\ call.transformations = Dict(IdentityToGlobal)
    /\ ~call.ok

\* What the input of a parse carried as transformations (an array carries none).
InputTransformations(d) ==
    IF "attrs" \in DOMAIN d THEN GetTransformations(d) ELSE None

\* C2: every element a successful parse of a raster, shapes or points model returns
\* carries a non-empty mapping; it is {"global": Identity} when neither the input
\* nor the caller gave a non-empty one; and on the multiscale path it is the mapping
\* resolved before the pyramid was built.
C2_ParsedElementCarriesMapping ==
    (call.op \in ElementParsers /\ call.ok) =>
        /\ NonEmpty(GetTransformations(call.result))
        /\ (~NonEmpty(InputTransformations(call.before)) /\ ~NonEmpty(call.transformations)
              => GetTransformations(call.result) = Dict(IdentityToGlobal))
        /\ (call.result.type = "MultiscaleSpatialImage" =>
              /\ Len(call.pts) = 2
              /\ GetTransformations(call.result) = call.pts[1].after)

C2_Witness ==
    /\ call.op = "RasterSchema.parse"
    /\ call.ok
    /\ call.result.type = "MultiscaleSpatialImage"
    /\ call.transformations = Dict(ScaleToMySpace0)
    /\ GetTransformations(call.result) = Dict(ScaleToMySpace0)

Unlabelled(d) == d.type \in {"ndarray", "DaskArray"}

\* C3: for every raster model and every permutation p of its dims, parsing an
\* unlabelled array with as many axes, with dims = p, succeeds; the result passes
\* validate, its dims are the model's in the model's order, and its extent along
\* each d is the extent of the array along axis p.index(d).
C3_PermutedDimsAreTransposed ==
    (/\ call.op = "RasterSchema.parse"
     /\ Unlabelled(call.before)
     /\ ~IsNone(call.dims)
     /\ IsPermutationOf(call.dims.val, ClsDims(call.cls))
     /\ Len(call.before.shape) = Len(ClsDims(call.cls))
     /\ "name" \notin call.kwargs) =>
        /\ call.ok
        /\ RasterSchema_validate(call.cls, call.result)
        /\ call.result.dims = ClsDims(call.cls)
        /\ \A i \in DOMAIN call.result.dims :
              call.result.shape[i] =
                  call.before.shape[Index(call.dims.val, call.result.dims[i])]

C3_Witness ==
    /\ call.op = "RasterSchema.parse"
    /\ call.cls = "Image3DModel"
    /\ call.before.type = "ndarray"
    /\ call.before.shape = <<1, 2, 2, 1>>
    /\ call.dims = List(<<Z, Y, X, C>>)
    /\ call.ok
    /\ call.result.shape = <<1, 1, 2, 2>>

\* C4 as claimed: a raster parse whose `dims` is given and is not a permutation of
\* the model's dims fails.
C4_NonPermutationDimsFail ==
    (/\ call.op = "RasterSchema.parse"
     /\ ~IsNone(call.dims)
     /\ ~IsPermutationOf(call.dims.val, ClsDims(call.cls))) => ~call.ok

AllPoints(geometry) ==
    Len(geometry) > 0 /\ \A i \in DOMAIN geometry : geometry[i] = "Point"

\* The geometries a call of ShapesModel.parse was given, and whether it was given
\* a radius for each of them.
GivenGeometry ==
    CASE call.entry = "ndarray" ->
            [i \in 1..call.before.ngeoms |-> GeometryTypeName(call.geometry)]
      [] call.entry = "Path" -> call.before.geoms
      [] call.entry = "GeoDataFrame" -> call.before.geometry

GivenRadius ==
    IF call.entry = "GeoDataFrame" THEN RADIUS_KEY \in call.before.columns
    ELSE ~IsNone(call.radius) /\ call.radius.len = Len(GivenGeometry)

NoRadius ==
    IF call.entry = "GeoDataFrame" THEN RADIUS_KEY \notin call.before.columns
    ELSE IsNone(call.radius)

\* The input is one the entry point can read: a ragged array that decodes, a file
\* that holds a geometry collection, a table whose geometry column is a GeoSeries.
ReadableShapes ==
    CASE call.entry = "ndarray" -> call.before.ragged_ok
      [] call.entry = "Path" -> call.before.isCollection
      [] call.entry = "GeoDataFrame" ->
            GEOMETRY_KEY \in call.before.columns /\ call.before.isGeoSeries

\* The transformations are given as a mapping or not at all, and not both on the
\* table and as argument (the case of C1).
TransformationsGivenOnce ==
    /\ ValidateMappingType(call.transformations)
    /\ ~(NonEmpty(InputTransformations(call.before)) /\ NonEmpty(call.transformations))

\* C5: for each entry point of ShapesModel.parse, when the geometries are Points,
\* parsing without a radius fails, and parsing with one radius per row succeeds and
\* the result passes ShapesModel.validate (the transformations being given once).
C5_PointsNeedRadius ==
    (call.op = "ShapesModel.parse" /\ ReadableShapes /\ AllPoints(GivenGeometry)) =>
        /\ (NoRadius => ~call.ok)
        /\ (GivenRadius /\ TransformationsGivenOnce =>
               call.ok /\ ShapesModel_validate(call.result))

C5_WitnessEntry(entry) ==
    /\ call.op = "ShapesModel.parse"
    /\ call.entry = entry
    /\ ReadableShapes
    /\ AllPoints(GivenGeometry)
    /\ GivenRadius
    /\ call.ok

C5_Witness == C5_WitnessEntry("ndarray")

\* ---------------------------------------------------------------- C6
\* The triple is well formed for the table: a single name without region_key and
\* with instance_key, or a list with a region_key naming an observation column whose
\* values all belong to the list, and with instance_key.
WellFormedTriple(adata, region, region_key, instance_key) ==
    \/ /\ region.kind = "str"
       /\ IsNone(region_key)
       /\ ~IsNone(instance_key)
    \/ /\ region.kind = "list"
       /\ ~IsNone(region_key)
       /\ region_key.val \in DOMAIN adata.obs
       /\ AllIn(adata.obs[region_key.val], region.val)
       /\ ~IsNone(instance_key)

ParsedTable == call.op = "TableModel.parse"

WithExplicitArguments ==
    /\ ParsedTable
    /\ ~call.had_block
    /\ NArgs(call.region, call.region_key, call.instance_key) > 0

\* C6: TableModel.parse on a table without a metadata block and with explicit
\* arguments succeeds only if the triple is well formed (a single name with no
\* region_key and an instance_key, or a list with a region_key whose column values
\* all belong to the list and an instance_key).  The code does not keep this: with
\* region left out, a region_key or an instance_key alone is accepted and written.
C6_SucceedsOnlyIfWellFormed ==
    (WithExplicitArguments /\ call.ok) =>
        WellFormedTriple(data, call.region, call.region_key, call.instance_key)

\* ---------------------------------------------------------------- C7
\* C7: for a well-formed triple, after TableModel.parse succeeds the block holds
\* exactly that triple, and parsing the same table again with no arguments succeeds
\* and leaves the block as it was.
C7_ParseThenReReadIsARoundTrip ==
    [][/\ (/\ call'.op = "TableModel.parse"
           /\ call'.ok
           /\ NArgs(call'.region, call'.region_key, call'.instance_key) > 0
           /\ WellFormedTriple(data, call'.region, call'.region_key,
                               call'.instance_key))
          => Block(data') = Attr(call'.region, call'.region_key, call'.instance_key)
       /\ (/\ ParsedWithArguments
           /\ WellFormedTriple(data, call.region, call.region_key, call.instance_key)
           /\ call'.op = "TableModel.parse"
           /\ NArgs(call'.region, call'.region_key, call'.instance_key) = 0)
          => (call'.ok /\ Block(data') = Block(data))]_vars

\* A list of two regions was parsed with its region_key and instance_key, and the
\* table was parsed a second time with no arguments.
C7_Witness ==
    /\ ParsedTable
    /\ call.follows_parse
    /\ NArgs(call.region, call.region_key, call.instance_key) = 0
    /\ call.ok
    /\ Block(data) = Attr(List(<<"sample1", "sample2">>), Str(ObsColumn),
                          Str("instance_id"))
    /\ Len(data.obs[ObsColumn].values) = MaxObs

\* ---------------------------------------------------------------- C8
\* The region linkage of a table that carries a block.
RegionLinkage(adata) ==
    LET attr == Block(adata)
    IN  /\ {REGION_KEY, REGION_KEY_KEY, INSTANCE_KEY} \subseteq DOMAIN attr
        /\ (attr[REGION_KEY].kind = "list" =>
              /\ ~IsNone(attr[REGION_KEY_KEY])
              /\ attr[REGION_KEY_KEY].val \in DOMAIN adata.obs
              /\ AllIn(adata.obs[attr[REGION_KEY_KEY].val], attr[REGION_KEY].val)
              /\ ~IsNone(attr[INSTANCE_KEY]))
        /\ (attr[REGION_KEY].kind = "str" =>
              /\ IsNone(attr[REGION_KEY_KEY])
              /\ ~IsNone(attr[INSTANCE_KEY]))

\* C8: every table TableModel.validate accepts satisfies the region linkage: a list
\* region has a region_key whose column values all belong to the list, a single name
\* has no region_key, and instance_key is recorded in both cases.  The code does not
\* keep this: validate looks at which keys the block has, not at what they hold.
C8_ValidatedTablesAreLinked ==
    (call.op = "TableModel.validate" /\ call.ok /\ ATTRS_KEY \in DOMAIN data.uns) =>
        RegionLinkage(data)

\* ---------------------------------------------------------------- C9
Filtered == call.op = "filter_by_coordinate_system"

\* The element object a container holds under a kind and a name.
ElementOf(sdata, e) == data.objects[sdata[e[1]][e[2]]]

\* C9: filter_by_coordinate_system(names) returns a container whose non-table
\* elements are exactly the elements of the original mapped to at least one of the
\* requested names, each the same object under its original name and kind; a name
\* attached to no element is no error and contributes no element; and filtering by a
\* name every element is mapped to returns all elements and the same set of
\* coordinate systems.
C9_FilterKeepsTheMappedElements ==
    Filtered =>
        LET names == Names(call.coordinate_system)
            original == data.sdata
            filtered == call.result
        IN  /\ call.ok
            /\ filtered.type = "SpatialData"
            /\ GenElements(filtered) =
                 {e \in GenElements(original) :
                     MappedTo(ElementOf(original, e)) \cap names # {}}
            /\ \A e \in GenElements(filtered) :
                 filtered[e[1]][e[2]] = original[e[1]][e[2]]
            /\ (names \cap CoordinateSystems(original, data.objects) = {}
                  => GenElements(filtered) = {})
            /\ ((\E name \in names : \A e \in GenElements(original) :
                     name \in MappedTo(ElementOf(original, e)))
                  => /\ GenElements(filtered) = GenElements(original)
                     /\ CoordinateSystems(filtered, data.objects) =
                          CoordinateSystems(original, data.objects))

\* Three elements, filtered by a list of names of which one is attached to no element:
\* some elements are kept and some are not.
C9_Witness ==
    /\ Filtered
    /\ call.coordinate_system = List(<<"my_space0", "my_space1", "my_space2">>)
    /\ Cardinality(GenElements(data.sdata)) = 3
    /\ Cardinality(GenElements(call.result)) = 2
    /\ "my_space1" \in CoordinateSystems(call.result, data.objects)

\* ---------------------------------------------------------------- C10
\* The paths of the elements of a container.
ElementPaths(sdata) == {ElementPath(e[1], e[2]) : e \in GenElements(sdata)}

\* The rows of the table whose region names one of the given elements.
RowsOf(adata, paths) ==
    LET Annotates(row) == RegionMembership(adata, row) \cap paths # {}
    IN  SelectSeq(Rows(adata), Annotates)

\* Every row of the table annotates an element that one of the two requests keeps
\* and the other does not.
SplitBetween(coordinate_system, other) ==
    LET kept(cs) == ElementPaths(FilterByCoordinateSystem(data.sdata, data.objects,
                                                          cs, TRUE))
    IN  \A i \in DOMAIN Rows(data.sdata.table) :
           LET membership == RegionMembership(data.sdata.table, Rows(data.sdata.table)[i])
           IN  /\ membership \subseteq kept(coordinate_system) \cup kept(other)
               /\ membership \cap kept(coordinate_system) \cap kept(other) = {}

FilteredWithTable == Filtered /\ data.sdata.table.type = "AnnData"

\* C10: with filter_table true the filtered table holds exactly the rows of the
\* original whose region names an element that is kept, so when the table's regions
\* are split between two coordinate systems the row counts of the two filtered tables
\* sum to the original's; with filter_table false the table has the rows of the
\* original whatever elements are kept.
C10_FilterKeepsTheRowsOfKeptElements ==
    FilteredWithTable =>
        LET original == data.sdata.table
            filtered == call.result.table
        IN  /\ filtered.type = "AnnData"
            /\ filtered.uns = original.uns
            /\ call.filter_table =>
                 /\ Rows(filtered) = RowsOf(original, ElementPaths(call.result))
                 /\ \A other \in CoordinateSystemArgs :
                      SplitBetween(call.coordinate_system, other) =>
                          NObs(filtered)
                            + NObs(FilterByCoordinateSystem(data.sdata, data.objects,
                                                            other, TRUE).table)
                            = NObs(original)
            /\ ~call.filter_table => Rows(filtered) = Rows(original)

\* The table annotates the two shapes, one row each; the shapes are mapped to
\* different coordinate systems and the filter by one of them keeps one row.
C10_Witness ==
    /\ FilteredWithTable
    /\ call.filter_table
    /\ call.coordinate_system = Str("my_space0")
    /\ REGION_KEY_COLUMN \in DOMAIN data.sdata.table.obs
    /\ data.sdata.table.obs[REGION_KEY_COLUMN].values = <<"shapes/circles", "shapes/poly">>
    /\ SplitBetween(Str("my_space0"), Str("my_space1"))
    /\ NObs(call.result.table) = 1
    /\ ElementPaths(call.result) \cap ShapePaths = {"shapes/circles"}

\* ---------------------------------------------------------------- C12
ConcatenatedTables == call.op = "_concatenate_tables"

RECURSIVE SumOfRows(_)
SumOfRows(tables) ==
    IF tables = <<>> THEN 0 ELSE NObs(Head(tables)) + SumOfRows(Tail(tables))

SingleRegion(table) ==
    Block(table)[REGION_KEY].kind = "str" /\ IsNone(Block(table)[REGION_KEY_KEY])

\* The inputs' linkage is compatible: one instance_key, and either every input
\* annotates a single region or every input annotates a list under one region_key.
CompatibleLinkage(tables) ==
    /\ \A j, k \in DOMAIN tables :
          Block(tables[j])[INSTANCE_KEY] = Block(tables[k])[INSTANCE_KEY]
    /\ \/ \A k \in DOMAIN tables : SingleRegion(tables[k])
       \/ \A j, k \in DOMAIN tables :
             /\ Block(tables[k])[REGION_KEY].kind = "list"
             /\ Block(tables[k])[REGION_KEY_KEY].kind = "str"
             /\ Block(tables[j])[REGION_KEY_KEY] = Block(tables[k])[REGION_KEY_KEY]

\* The name is a column of no input, other than the input's own region_key column.
CollidesWithNoColumn(tables, region_key) ==
    \A k \in DOMAIN tables :
        region_key.val \in DOMAIN tables[k].obs
            => Block(tables[k])[REGION_KEY_KEY] = region_key

\* C12: _concatenate_tables of no table yields no table; of one table (that validate
\* accepts) a table with the same row count; of several tables with compatible region
\* linkage a table whose row count is the sum of the inputs' and whose block holds the
\* sorted union of the inputs' regions, a region_key that names the column of the
\* rows' regions and collides with no other column of an input, and the inputs'
\* common instance_key.
C12_ConcatenatedTableSumsTheRows ==
    ConcatenatedTables =>
        LET tables == data.tables
            merged == call.result
        IN  /\ Len(tables) = 0 => (call.ok /\ merged = NoElement)
            /\ (Len(tables) = 1 /\ TableModel_validate(tables[1])) =>
                  (call.ok /\ NObs(merged) = NObs(tables[1]))
            /\ (Len(tables) > 1 /\ CompatibleLinkage(tables)) =>
                  /\ call.ok
                  /\ NObs(merged) = SumOfRows(tables)
                  /\ Block(merged)[REGION_KEY] =
                       List(Sorted(UNION {RegionsOf(tables[k]) : k \in DOMAIN tables}))
                  /\ Block(merged)[REGION_KEY_KEY].kind = "str"
                  /\ CollidesWithNoColumn(tables, Block(merged)[REGION_KEY_KEY])
                  /\ Block(merged)[INSTANCE_KEY] = Block(tables[1])[INSTANCE_KEY]
                  /\ RegionLinkage(merged)

\* Three tables of single regions, one of which already has a column of the merged
\* name: the merged table has all their rows and a region_key of another name.
C12_Witness ==
    /\ ConcatenatedTables
    /\ call.ok
    /\ Len(data.tables) = MaxTables
    /\ \E k \in DOMAIN data.tables : MergedRegionKeys[1] \in DOMAIN data.tables[k].obs
    /\ Block(call.result) = Attr(List(<<"shapes/circles", "shapes/poly">>),
                                 Str(MergedRegionKeys[2]), Str(INSTANCE_KEY_COLUMN))
    /\ NObs(call.result) > MaxTables

\* ---------------------------------------------------------------- C13
\* An input pairs a single region with a region_key, or two inputs record different
\* instance keys.
InconsistentLinkage(tables) ==
    \/ \E k \in DOMAIN tables :
          Block(tables[k])[REGION_KEY].kind = "str" /\ ~IsNone(Block(tables[k])[REGION_KEY_KEY])
    \/ \E j, k \in DOMAIN tables :
          Block(tables[j])[INSTANCE_KEY] # Block(tables[k])[INSTANCE_KEY]

\* Two inputs annotate lists of regions under different region keys.
MismatchedRegionKeys(tables) ==
    \E j, k \in DOMAIN tables :
        /\ Block(tables[j])[REGION_KEY].kind = "list"
        /\ Block(tables[k])[REGION_KEY].kind = "list"
        /\ Block(tables[j])[REGION_KEY_KEY] # Block(tables[k])[REGION_KEY_KEY]

\* C13: _concatenate_tables returns no merged table for inconsistent inputs: a single
\* region paired with a region_key, or differing instance keys, raise an assertion
\* error; lists of regions under different region keys raise a runtime error.
C13_InconsistentTablesAreNotMerged ==
    (ConcatenatedTables /\ Len(data.tables) > 1) =>
        /\ InconsistentLinkage(data.tables) =>
              (~call.ok /\ call.error = "AssertionError" /\ call.result = NoElement)
        /\ (~InconsistentLinkage(data.tables) /\ MismatchedRegionKeys(data.tables)) =>
              (~call.ok /\ call.error = "RuntimeError" /\ call.result = NoElement)

\* Two tables of lists of regions under different region keys were refused.
C13_Witness ==
    /\ ConcatenatedTables
    /\ Len(data.tables) = 2
    /\ MismatchedRegionKeys(data.tables)
    /\ call.error = "RuntimeError"

\* A table whose instance_key was rewritten to a list was refused next to one that
\* records a name.
C13_WitnessAssertion ==
    /\ ConcatenatedTables
    /\ Len(data.tables) = 2
    /\ \A k \in DOMAIN data.tables : SingleRegion(data.tables[k])
    /\ InconsistentLinkage(data.tables)
    /\ call.error = "AssertionError"

\* ---------------------------------------------------------------- C11
Concatenated == call.op = "concatenate"

\* Two of the containers hold an element of the same name and kind.
SameNameTwice(sdatas) ==
    \E j, k \in DOMAIN sdatas :
        j # k /\ GenElements(sdatas[j]) \cap GenElements(sdatas[k]) # {}

SomeTable(sdatas) == \E k \in DOMAIN sdatas : sdatas[k].table # NoElement

Located == call.op = "_locate_spatial_element"

\* C14: after any additions and removals on the collections, _locate_spatial_element
\* returns (name, kind) when the element is bound under exactly one name, and fails
\* when it is bound under none or under more than one.
C14_LocateFindsTheOnlyBinding ==
    Located =>
        LET bound == {e \in GenElements(data.sdata) :
                         data.sdata[e[1]][e[2]] = call.element}
        IN  /\ Cardinality(bound) = 1 =>
                  (call.ok /\ \E e \in bound : call.result = <<e[2], e[1]>>)
            /\ Cardinality(bound) # 1 =>
                  (~call.ok /\ call.error = "ValueError" /\ call.result = NoElement)

\* The image was bound under a second name and the lookup failed.
C14_Witness ==
    /\ Located
    /\ call.element \in Range(ImageIds)
    /\ DOMAIN data.sdata["images"] = {"image2d", "image2d_again"}
    /\ data.sdata["images"]["image2d"] = data.sdata["images"]["image2d_again"]
    /\ ~call.ok

\* A shape was removed, and the lookup of the object the caller still holds failed.
C14_WitnessDeleted ==
    /\ Located
    /\ call.element \in Range(ShapeIds)
    /\ call.element \notin Range(data.sdata["shapes"])
    /\ ~call.ok

\* ---------------------------------------------------------------- C15
\* A parse entry point was handed an object the caller owns and works on it.
ParsedCallerOwned ==
    \/ call.op = "ShapesModel.parse" /\ call.entry = "GeoDataFrame"
    \/ call.op = "RasterSchema.parse" /\ call.before.type = "DataArray"

\* C15: when a parse entry point that receives a caller-owned object fails, the
\* object is what it was before the call: its transformation mapping, its columns and
\* its backing array.  The code does not keep this: the geometry table has received
\* its mapping before validate raises, and the labelled array has been rebound to a
\* lazy backing array before the checks of dims raise.
C15_FailedParseLeavesInputUnchanged ==
    (ParsedCallerOwned /\ ~call.ok) => data = call.before

\* ---------------------------------------------------------------- C16
ParsedShapes == call.op = "ShapesModel.parse" /\ call.ok

\* C16: every shapes element that validate accepted, and so every element a shapes
\* parse returned, has a radius column if and only if its geometries are Points.  The
\* code does not keep this: validate asks for the column under Points and never
\* refuses it under polygons.
C16_RadiusIffPoints ==
    ParsedShapes =>
        (RADIUS_KEY \in call.result.columns
            <=> \A i \in DOMAIN call.result.geometry : call.result.geometry[i] = "Point")

\* ---------------------------------------------------------------- C17
\* C17: every shapes element that validate accepted has a geometry column whose rows
\* are all of one supported kind.  The code does not keep this: validate looks at the
\* first row only.
C17_GeometriesAreOfOneKind ==
    ParsedShapes =>
        \E kind \in {"Point", "Polygon", "MultiPolygon"} :
            \A i \in DOMAIN call.result.geometry : call.result.geometry[i] = kind

\* ---------------------------------------------------------------- C18
\* The mapping, or None when it is missing or empty.
Present(t) == IF NonEmpty(t) THEN t ELSE None

\* C18: after a successful _parse_transformations(element, arg) the element stores
\* its own prior mapping if that was non-empty, otherwise arg if arg is non-empty,
\* otherwise {"global": Identity}; an empty mapping on either side counts as absent.
C18_OneSourceWinsOrDefault ==
    \A i \in DOMAIN call.pts :
        LET pt == call.pts[i]
            own == Present(pt.in_element)
            arg == Present(pt.transformations)
        IN  pt.ok =>
                /\ IsNone(own) \/ IsNone(arg)
                /\ pt.after = IF ~IsNone(own) THEN own
                              ELSE IF ~IsNone(arg) THEN arg
                              ELSE Dict(IdentityToGlobal)

\* An element with an empty mapping was given an empty mapping and got the default.
C18_Witness ==
    /\ call.op = "_parse_transformations"
    /\ call.ok
    /\ GetTransformations(call.before) = Dict(EmptyDict)
    /\ call.transformations = Dict(EmptyDict)
    /\ GetTransformations(data) = Dict(IdentityToGlobal)

\* ---------------------------------------------------------------- C19
ParsedTransformationsAgain == call.op = "_parse_transformations" /\ call.again

\* C19 as stated: after a first successful _parse_transformations has stored M, a
\* second call on the same element passing M as the argument succeeds and leaves M.
C19_SecondCallWithStoredMappingSucceeds ==
    (ParsedTransformationsAgain /\ call.transformations = GetTransformations(call.before))
        => (call.ok /\ GetTransformations(data) = call.transformations)

\* C19 as amended: after a first successful _parse_transformations has stored M, a
\* second call on the same element passing no mapping (None or an empty one) succeeds
\* and leaves M stored; a second call passing M, or any non-empty mapping, fails and
\* leaves M stored as well.
C19_SecondCallKeepsStoredMapping ==
    ParsedTransformationsAgain =>
        /\ NonEmpty(GetTransformations(call.before))
        /\ GetTransformations(data) = GetTransformations(call.before)
        /\ (call.transformations \in {None, Dict(EmptyDict)} => call.ok)
        /\ (NonEmpty(call.transformations) => ~call.ok)

\* The second call passed the stored mapping and failed; the mapping is still stored.
C19_Witness ==
    /\ ParsedTransformationsAgain
    /\ call.transformations = GetTransformations(call.before)
    /\ ~call.ok
    /\ GetTransformations(data) = Dict(ScaleToMySpace0)

\* ---------------------------------------------------------------- C20
\* At least one of region, region_key and instance_key was passed.
ArgumentsPassed ==
    ~IsNone(call.region) \/ ~IsNone(call.region_key) \/ ~IsNone(call.instance_key)

\* The block holds a well-formed triple for the table, or no region at all.
WellFormedOrAbsent(adata) ==
    /\ DOMAIN Block(adata) = {REGION_KEY, REGION_KEY_KEY, INSTANCE_KEY}
    /\ \/ IsNone(Block(adata)[REGION_KEY])
       \/ WellFormedTriple(adata, Block(adata)[REGION_KEY], Block(adata)[REGION_KEY_KEY],
                           Block(adata)[INSTANCE_KEY])

\* C20: TableModel.parse takes the triple from one source: with a block on the table
\* (also one an earlier parse wrote) and an argument passed, the call fails and the
\* block is unchanged; with a block and no argument, the three values are those of
\* the block.
C20_TripleFromOneSource ==
    [][(call'.op = "TableModel.parse" /\ ATTRS_KEY \in DOMAIN data.uns) =>
          /\ ArgumentsPassed' => (~call'.ok /\ data' = data)
          /\ (~ArgumentsPassed' /\ call'.ok) => Block(data') = Block(data)
          /\ (~ArgumentsPassed' /\ ~call'.ok) =>
                (data'.uns = data.uns /\ ~WellFormedOrAbsent(data))]_vars

\* A parse wrote the block, and a parse with an argument was then refused.
C20_Witness ==
    /\ ParsedTable
    /\ call.follows_parse
    /\ call.had_block
    /\ ArgumentsPassed
    /\ ~call.ok
    /\ Block(data)[REGION_KEY].kind = "list"

\* ---------------------------------------------------------------- C21
\* C21: TableModel.parse with region None and no other region argument, on a table
\* without a block, succeeds and leaves the table without a block.  The code does not
\* keep this: the call succeeds, and the last two statements of parse write a block
\* whose three values are None.
C21_NoRegionLeavesNoBlock ==
    (ParsedTable /\ ~call.had_block /\ ~ArgumentsPassed)
        => (call.ok /\ ATTRS_KEY \notin DOMAIN data.uns)

\* ---------------------------------------------------------------- C22
ValidatedMultiscale == call.op = "RasterSchema.validate" /\ call.ok

\* C22: RasterSchema.validate accepts a multiscale element only if its level names
\* are scale0, scale1, ... in that order, every level exposes exactly one data
\* variable, of one name on all levels, and every level's array has the dimension
\* set of the model.  The code does not keep this: it reads the first data variable
\* of each level and never counts them.
C22_AcceptedMultiscaleIsWellFormed ==
    ValidatedMultiscale =>
        /\ \A i \in DOMAIN data.keys : data.keys[i] = ScaleKeys[i]
        /\ \A i \in DOMAIN data.levels : Len(data.levels[i].data_vars) = 1
        /\ \A i, j \in DOMAIN data.levels :
              data.levels[i].data_vars[1].name = data.levels[j].data_vars[1].name
        /\ \A i \in DOMAIN data.levels :
              Range(data.levels[i].data_vars[1].dims) = Range(ClsDims(call.cls))

\* ---------------------------------------------------------------- C23
ParsedPoints == call.op = "PointsModel.parse"

\* The result has a column named by the key and its block records it under `name`.
KeyRecorded(key, name) ==
    /\ key.val \in call.result.columns
    /\ ATTRS_KEY \in DOMAIN call.result.attrs
    /\ name \in DOMAIN call.result.attrs[ATTRS_KEY]
    /\ call.result.attrs[ATTRS_KEY][name] = key.val

\* The same call on the same table with no categorical column.
OutcomeIfNotCategorical ==
    PointsModel_parse_table([call.before EXCEPT !.categorical = {}], call.coordinates,
                            call.feature_key, call.instance_key, call.transformations,
                            call.attrs_kept).ok

\* C23: for every points parse entry point and every feature_key / instance_key the
\* caller supplies, a successful parse returns a table with a column of that name,
\* recorded in the metadata block; the block is absent exactly when neither key was
\* supplied; and a parse succeeds whether or not the feature_key column is already
\* categorical.  The code does not keep this: the array entry without a side table
\* drops both keys, and the lazy entry neither copies an already categorical
\* feature_key column nor finds it afterwards.
C23_SuppliedKeysAreRecorded ==
    ParsedPoints =>
        /\ call.ok =>
              /\ ~IsNone(call.feature_key) => KeyRecorded(call.feature_key, FEATURE_KEY)
              /\ ~IsNone(call.instance_key) => KeyRecorded(call.instance_key, INSTANCE_KEY)
              /\ ATTRS_KEY \notin DOMAIN call.result.attrs
                    <=> (IsNone(call.feature_key) /\ IsNone(call.instance_key))
        /\ (call.entry # "ndarray" /\ ~IsNone(call.feature_key))
              => call.ok = OutcomeIfNotCategorical

\* ---------------------------------------------------------------- C24
\* C24: across any sequence of _parse_transformations calls on one element, the
\* mapping is write-once: a successful call leaves a non-empty mapping stored, and a
\* call on an element that stores a non-empty mapping, whether it fails or succeeds,
\* leaves that mapping as it was, so that no later call replaces or extends it.
C24_MappingIsWriteOnce ==
    [][call'.op = "_parse_transformations" =>
          /\ call'.ok => NonEmpty(GetTransformations(data'))
          /\ NonEmpty(GetTransformations(data)) =>
                GetTransformations(data') = GetTransformations(data)
          /\ (call.op = "_parse_transformations" /\ call.ok) =>
                NonEmpty(GetTransformations(data))]_vars

\* A first call stored a mapping of two coordinate systems, and a later call that
\* passed none succeeded and left it stored.
C24_Witness ==
    /\ ParsedTransformationsAgain
    /\ call.ok
    /\ IsNone(call.transformations)
    /\ GetTransformations(call.before) = Dict(TwoSpaces)
    /\ GetTransformations(data) = Dict(TwoSpaces)

====
